---- MODULE Spec2Model ----
(***************************************************************************)
(* A model of the complexity-multiplier engine of sourcenetwork/testing:   *)
(* package multiplier (Register, Init, Apply, Skip, Get) and the package   *)
(* level helpers Execute, ExecuteS and Log.                                *)
(*                                                                         *)
(* Strings are sequences of one-character strings, so that strings.Split,  *)
(* strings.TrimSpace and strings.Join are computed and not assumed.        *)
(* The process-wide state is the two package variables; the variable call  *)
(* records the last operation, its inputs and what it returned or          *)
(* signalled to the test reporter.                                         *)
(***************************************************************************)
EXTENDS Integers, Sequences, FiniteSets, TLC

VARIABLES availableMultipliers, activeMultipliers, call

vars == <<availableMultipliers, activeMultipliers, call>>

(* ------------------------------ bounds -------------------------------- *)

MaxRegistered == 2
MaxEnvLen == 2
MaxDefaults == 2
MaxFilter == 2
MaxActions == 2
MaxExecuted == 3
MaxLogged == 2

SeqsUpTo(S, n) == UNION {[1..k -> S] : k \in 0..n}

(* ------------------------------ strings ------------------------------- *)

Comma == ","
Whitespace == {" "}
EnvAlphabet == {"a", "b", Comma, " "}

\* strings.TrimSpace: the string without its leading and trailing white space.
RECURSIVE TrimLeft(_)
TrimLeft(s) ==
    IF s # <<>> /\ Head(s) \in Whitespace THEN TrimLeft(Tail(s)) ELSE s

RECURSIVE TrimRight(_)
TrimRight(s) ==
    IF s # <<>> /\ s[Len(s)] \in Whitespace
    THEN TrimRight(SubSeq(s, 1, Len(s) - 1))
    ELSE s

TrimSpace(s) == TrimRight(TrimLeft(s))

\* strings.Split(s, ","): the substrings between the commas; a string
\* without a comma (the empty string too) gives the one-element list of itself.
RECURSIVE SplitFrom(_, _)
SplitFrom(s, cur) ==
    IF s = <<>> THEN <<cur>>
    ELSE IF Head(s) = Comma THEN <<cur>> \o SplitFrom(Tail(s), <<>>)
    ELSE SplitFrom(Tail(s), Append(cur, Head(s)))

Split(s) == SplitFrom(s, <<>>)

\* strings.Join(names, ",")
RECURSIVE Join(_)
Join(names) ==
    IF names = <<>> THEN <<>>
    ELSE IF Len(names) = 1 THEN names[1]
    ELSE names[1] \o <<Comma>> \o Join(Tail(names))

(* ------------------- Multiplier implementations ----------------------- *)
(* The interface is implemented by the consuming packages.  Five           *)
(* implementations stand for them: two share the name "a", one is named by *)
(* the empty string and one by a name with leading white space.  Their     *)
(* Apply functions insert, append by length, reorder and remove actions.   *)

Multipliers == {"A", "B", "A2", "E", "W"}

Name(m) ==
    CASE m = "A" -> <<"a">>
      [] m = "B" -> <<"b">>
      [] m = "A2" -> <<"a">>
      [] m = "E" -> <<>>
      [] m = "W" -> <<" ", "a">>

RECURSIVE Reverse(_)
Reverse(s) == IF s = <<>> THEN <<>> ELSE Append(Reverse(Tail(s)), Head(s))

\* Multiplier.Apply of each implementation; actions are opaque identities
\* (integers) here.  A prepends action 0, B appends the action numbered by
\* the current length, A2 reverses, E returns its input, W drops the first.
MultiplierApply(m, source) ==
    CASE m = "A" -> <<0>> \o source
      [] m = "B" -> Append(source, Len(source))
      [] m = "A2" -> Reverse(source)
      [] m = "E" -> source
      [] m = "W" -> IF source = <<>> THEN <<>> ELSE Tail(source)

(* ------------------------------ Register ------------------------------ *)

\* A Register that would also activate what it registers.
RegisterActivating(multiplier) ==
    /\ Len(availableMultipliers) < MaxRegistered
    /\ availableMultipliers' = Append(availableMultipliers, multiplier)
    /\ call' = [op |-> "Register", multiplier |-> multiplier]
    /\ activeMultipliers' = Append(activeMultipliers, multiplier)

\* lines 76-78
Register(multiplier) ==
    /\ Len(availableMultipliers) < MaxRegistered
    /\ availableMultipliers' = Append(availableMultipliers, multiplier)
    /\ call' = [op |-> "Register", multiplier |-> multiplier]
    /\ UNCHANGED activeMultipliers

(* -------------------------------- Init -------------------------------- *)

\* A lookup that would treat the empty value like an unset variable.
SourceNamesEmptyAsUnset(ok, multipliersString, defaults) ==
    IF ok /\ multipliersString # <<>> THEN Split(multipliersString) ELSE defaults

\* lines 91-97: the names from the variable if os.LookupEnv finds it, else
\* the defaults.
SourceNames(ok, multipliersString, defaults) ==
    IF ok THEN Split(multipliersString) ELSE defaults

\* lines 99-101
TrimNames(multiplierNames) ==
    [i \in DOMAIN multiplierNames |-> TrimSpace(multiplierNames[i])]

\* A map that would keep the first multiplier registered under a name.
RECURSIVE ByNameFirstWins(_, _, _)
ByNameFirstWins(available, i, acc) ==
    IF i > Len(available) THEN acc
    ELSE ByNameFirstWins(available, i + 1,
                         acc @@ (Name(available[i]) :> available[i]))

\* lines 103-106: the map is written in registration order, a later
\* multiplier overwriting an earlier one of the same name.
RECURSIVE ByName(_, _, _)
ByName(available, i, acc) ==
    IF i > Len(available) THEN acc
    ELSE ByName(available, i + 1, (Name(available[i]) :> available[i]) @@ acc)

AvailableMultipliersByName(available) == ByName(available, 1, <<>>)

\* A selection that would stop at the first unknown name.
RECURSIVE SelectUntilUnknown(_, _, _, _)
SelectUntilUnknown(byName, multiplierNames, i, active) ==
    IF i > Len(multiplierNames) THEN active
    ELSE IF multiplierNames[i] \in DOMAIN byName
    THEN SelectUntilUnknown(byName, multiplierNames, i + 1,
                            Append(active, byName[multiplierNames[i]]))
    ELSE active

\* lines 108-113
RECURSIVE Select(_, _, _, _)
Select(byName, multiplierNames, i, active) ==
    IF i > Len(multiplierNames) THEN active
    ELSE IF multiplierNames[i] \in DOMAIN byName
    THEN Select(byName, multiplierNames, i + 1,
                Append(active, byName[multiplierNames[i]]))
    ELSE Select(byName, multiplierNames, i + 1, active)

\* An Init that would extend the previous active set.
InitResultAppending(previous, available, ok, multipliersString, defaults) ==
    previous \o
    Select(AvailableMultipliersByName(available),
           TrimNames(SourceNames(ok, multipliersString, defaults)), 1, <<>>)

\* The active set Init computes: it starts from an empty list (line 108).
InitResult(previous, available, ok, multipliersString, defaults) ==
    Select(AvailableMultipliersByName(available),
           TrimNames(SourceNames(ok, multipliersString, defaults)), 1, <<>>)

\* Init(envVarName, defaults...): ok and multipliersString are what
\* os.LookupEnv(envVarName) returns.
InitCall(ok, multipliersString, defaults) ==
    /\ activeMultipliers' =
           InitResult(activeMultipliers, availableMultipliers, ok,
                      multipliersString, defaults)
    /\ call' = [op |-> "Init", ok |-> ok, value |-> multipliersString,
                defaults |-> defaults]
    /\ UNCHANGED availableMultipliers

(* -------------------------------- Apply ------------------------------- *)

\* A loop that would walk the active set from its end.
RECURSIVE ApplyLoopBackwards(_, _, _, _)
ApplyLoopBackwards(active, i, actions, invoked) ==
    IF i > Len(active) THEN [actions |-> actions, invoked |-> invoked]
    ELSE ApplyLoopBackwards(active, i + 1,
             MultiplierApply(active[Len(active) + 1 - i], actions),
             Append(invoked, <<active[Len(active) + 1 - i], actions>>))

\* lines 119-123; invoked lists, per call of a Multiplier's Apply, the
\* multiplier and the actions it received.
RECURSIVE ApplyLoop(_, _, _, _)
ApplyLoop(active, i, actions, invoked) ==
    IF i > Len(active) THEN [actions |-> actions, invoked |-> invoked]
    ELSE ApplyLoop(active, i + 1, MultiplierApply(active[i], actions),
                   Append(invoked, <<active[i], actions>>))

\* An Apply that would return the output of the last multiplier, which is
\* nothing when there is none.
ApplyResultOfLast(active, actions) ==
    IF active = <<>> THEN [actions |-> <<>>, invoked |-> <<>>]
    ELSE ApplyLoop(active, 1, actions, <<>>)

ApplyResult(active, actions) == ApplyLoop(active, 1, actions, <<>>)

Apply(actions) ==
    /\ call' = [op |-> "Apply", actions |-> actions,
                result |-> ApplyResult(activeMultipliers, actions).actions,
                invoked |-> ApplyResult(activeMultipliers, actions).invoked]
    /\ UNCHANGED <<availableMultipliers, activeMultipliers>>

(* -------------------------------- Skip -------------------------------- *)

\* What Skip signals to the test: t.Skipf logs the message and ends the test
\* function (SkipNow), so the first Skipf reached is the only one.
NoSkip == [skipped |-> FALSE, reason |-> "none", name |-> <<>>]
Skipf(reason, name) == [skipped |-> TRUE, reason |-> reason, name |-> name]

\* lines 132-138
RECURSIVE SkipExcludes(_, _, _, _)
SkipExcludes(active, excludes, i, j) ==
    IF i > Len(active) THEN NoSkip
    ELSE IF j > Len(excludes) THEN SkipExcludes(active, excludes, i + 1, 1)
    ELSE IF Name(active[i]) = excludes[j] THEN Skipf("excluded", excludes[j])
    ELSE SkipExcludes(active, excludes, i, j + 1)

\* lines 141-147
Included(active, include) ==
    \E i \in 1..Len(active) : Name(active[i]) = include

\* A check of the includes that would return after the first of them.
SkipIncludesFirstOnly(active, includes, k) ==
    IF k > Len(includes) \/ Included(active, includes[k]) THEN NoSkip
    ELSE Skipf("missing", includes[k])

\* lines 140-152
RECURSIVE SkipIncludes(_, _, _)
SkipIncludes(active, includes, k) ==
    IF k > Len(includes) THEN NoSkip
    ELSE IF ~Included(active, includes[k]) THEN Skipf("missing", includes[k])
    ELSE SkipIncludes(active, includes, k + 1)

SkipResult(active, includes, excludes) ==
    IF SkipExcludes(active, excludes, 1, 1).skipped
    THEN SkipExcludes(active, excludes, 1, 1)
    ELSE SkipIncludes(active, includes, 1)

Skip(includes, excludes) ==
    /\ call' = [op |-> "Skip", includes |-> includes, excludes |-> excludes,
                signal |-> SkipResult(activeMultipliers, includes, excludes)]
    /\ UNCHANGED <<availableMultipliers, activeMultipliers>>

(* --------------------------------- Get -------------------------------- *)

\* lines 157-162
GetResult(active) == Join([i \in DOMAIN active |-> Name(active[i])])

Get ==
    /\ call' = [op |-> "Get", result |-> GetResult(activeMultipliers)]
    /\ UNCHANGED <<availableMultipliers, activeMultipliers>>

(* ------------------------- Execute and ExecuteS ----------------------- *)
(* Actions are implemented by the consuming packages.  For execution an    *)
(* action is what it does with the state it holds: a writer stores a value *)
(* in it, a reader observes it, a plain action has no SetState.  TState is *)
(* any type: a reference type (a pointer, as in the README) makes SetState *)
(* hand every action the one instance; a value type makes each SetState    *)
(* call receive a copy of the argument of ExecuteS.                        *)

Nil == -1
InitialState == 0
Writer(v) == [stateful |-> TRUE, does |-> "write", v |-> v]
Reader == [stateful |-> TRUE, does |-> "read", v |-> 0]
Plain == [stateful |-> FALSE, does |-> "none", v |-> 0]
ExecActions == {Writer(1), Writer(2), Reader, Plain}

\* The run of one action list: the calls made so far, the shared instance
\* (used when TState is a reference), whether each action holds a state,
\* its own copy (used when TState is a value) and what each reader observed.
StartRun(actions, s) ==
    [events |-> <<>>, shared |-> s,
     held |-> [i \in DOMAIN actions |-> FALSE],
     copy |-> [i \in DOMAIN actions |-> Nil],
     observed |-> [i \in DOMAIN actions |-> Nil]]

\* Stateful.SetState(s) on action i (action/stateful.go line 13)
SetState(run, i, byRef, s) ==
    [run EXCEPT !.events = Append(@, <<"SetState", i>>),
                !.held[i] = TRUE,
                !.copy[i] = IF byRef THEN Nil ELSE s]

\* Action.Execute() on action i
ExecuteAction(run, actions, i, byRef) ==
    LET a == actions[i]
        r == [run EXCEPT !.events = Append(@, <<"Execute", i>>)]
    IN  IF a.does = "write" /\ run.held[i]
        THEN IF byRef THEN [r EXCEPT !.shared = a.v]
             ELSE [r EXCEPT !.copy[i] = a.v]
        ELSE IF a.does = "read" /\ run.held[i]
        THEN [r EXCEPT !.observed[i] =
                 IF byRef THEN run.shared ELSE run.copy[i]]
        ELSE r

\* lines 179-181
RECURSIVE ExecuteLoop(_, _, _)
ExecuteLoop(run, actions, i) ==
    IF i > Len(actions) THEN run
    ELSE ExecuteLoop(ExecuteAction(run, actions, i, TRUE), actions, i + 1)

\* A step that would inject the state after executing the action.
ExecuteSStepSetStateAfter(run, actions, i, byRef, s) ==
    LET r == ExecuteAction(run, actions, i, byRef)
    IN  IF actions[i].stateful THEN SetState(r, i, byRef, s) ELSE r

\* lines 186-192
ExecuteSStep(run, actions, i, byRef, s) ==
    ExecuteAction(IF actions[i].stateful THEN SetState(run, i, byRef, s)
                  ELSE run,
                  actions, i, byRef)

RECURSIVE ExecuteSLoop(_, _, _, _, _)
ExecuteSLoop(run, actions, i, byRef, s) ==
    IF i > Len(actions) THEN run
    ELSE ExecuteSLoop(ExecuteSStep(run, actions, i, byRef, s),
                      actions, i + 1, byRef, s)

Execute(a) ==
    /\ call' = [op |-> "Execute", actions |-> a,
                run |-> ExecuteLoop(StartRun(a, InitialState), a, 1)]
    /\ UNCHANGED <<availableMultipliers, activeMultipliers>>

ExecuteS(actions, byRef) ==
    /\ call' = [op |-> "ExecuteS", actions |-> actions, byRef |-> byRef,
                run |-> ExecuteSLoop(StartRun(actions, InitialState),
                                     actions, 1, byRef, InitialState)]
    /\ UNCHANGED <<availableMultipliers, activeMultipliers>>

(* --------------------------------- Log -------------------------------- *)
(* For Log an action is what json.MarshalIndent makes of it.  JSON text is *)
(* a sequence of one-byte tokens: "T" is the "_type" member, "f" a member  *)
(* of the action's own fields.                                             *)

LogActions == {"NoFields", "Fields", "NotObject", "Unmarshalable"}

\* json.MarshalIndent(a, "", "  "): nil bytes and an error when a cannot be
\* serialized.
MarshalIndent(a) ==
    CASE a = "NoFields" -> [bytes |-> <<"{", "}">>, err |-> FALSE]
      [] a = "Fields" -> [bytes |-> <<"{", "f", "}">>, err |-> FALSE]
      [] a = "NotObject" -> [bytes |-> <<"[", "f", "]">>, err |-> FALSE]
      [] a = "Unmarshalable" -> [bytes |-> <<>>, err |-> TRUE]

\* Whether a json.RawMessage is valid JSON (json.MarshalIndent of line 231
\* fails on one that is not): an object of members separated by commas.
RECURSIVE ValidMembers(_)
ValidMembers(s) ==
    /\ s # <<>>
    /\ Head(s) \in {"T", "f"}
    /\ \/ Len(s) = 1
       \/ Len(s) >= 3 /\ s[2] = Comma /\ ValidMembers(SubSeq(s, 3, Len(s)))

ValidJSON(s) ==
    /\ Len(s) >= 2
    /\ s[1] = "{"
    /\ s[Len(s)] = "}"
    /\ Len(s) = 2 \/ ValidMembers(SubSeq(s, 2, Len(s) - 1))

\* line 220: the error of MarshalIndent is discarded.
ActionJson(a) == MarshalIndent(a).bytes

\* actionJson[1:] of line 227 panics on the empty slice.
SlicePanics(actionJson) == Len(actionJson) < 1

\* lines 222-227
JsonString(actionJson) ==
    <<"{", "T">> \o (IF actionJson # <<"{", "}">> THEN <<Comma>> ELSE <<>>)
                 \o SubSeq(actionJson, 2, Len(actionJson))

\* lines 218-236
LogResult(active, actions) ==
    LET typedActions == [i \in DOMAIN actions |-> JsonString(ActionJson(actions[i]))]
    IN  IF \E i \in DOMAIN actions : SlicePanics(ActionJson(actions[i]))
        THEN [panicked |-> TRUE, fatal |-> FALSE, logged |-> FALSE,
              multipliers |-> <<>>, actions |-> <<>>]
        ELSE IF \E i \in DOMAIN actions : ~ValidJSON(typedActions[i])
        THEN [panicked |-> FALSE, fatal |-> TRUE, logged |-> FALSE,
              multipliers |-> <<>>, actions |-> <<>>]
        ELSE [panicked |-> FALSE, fatal |-> FALSE, logged |-> TRUE,
              multipliers |-> GetResult(active), actions |-> typedActions]

Log(actions) ==
    /\ call' = [op |-> "Log", actions |-> actions,
                out |-> LogResult(activeMultipliers, actions)]
    /\ UNCHANGED <<availableMultipliers, activeMultipliers>>

(* ------------------------------- inputs ------------------------------- *)

ExampleEnv ==
    {<<"a", Comma, "b">>, <<"b", Comma, "a">>, <<"a", Comma, "a">>,
     <<"a", Comma, " ", "b">>, <<" ", "b", " ", Comma, "a">>}
EnvValues == SeqsUpTo(EnvAlphabet, MaxEnvLen) \cup ExampleEnv
DefaultNames == {<<"a">>, <<"b">>, <<" ", "b">>}
DefaultLists == SeqsUpTo(DefaultNames, MaxDefaults)
\* the defaults of a call that finds the variable set
EnvDefaults == {<<<<"b">>, <<"a">>>>}
FilterNames == {<<"a">>, <<"b">>}
IncludeLists == SeqsUpTo(FilterNames, MaxFilter)
ExcludeLists ==
    {<<>>, <<<<"a">>>>, <<<<"b">>>>, <<<<"a">>, <<"b">>>>, <<<<"b">>, <<"a">>>>}
\* the multipliers registered where a test is admitted: the filters name
\* "a" and "b" only
SkipMultipliers == {"A", "B", "E"}
ActionLists == SeqsUpTo({7, 8}, MaxActions)
ExecLists == SeqsUpTo(ExecActions, MaxExecuted)
LogLists == SeqsUpTo(LogActions, MaxLogged)

(* ---------------------------- specifications -------------------------- *)

Init ==
    /\ availableMultipliers = <<>>
    /\ activeMultipliers = <<>>
    /\ call = [op |-> "none"]

\* Registration and selection, over every configuration value.
NextSelect ==
    \/ \E m \in Multipliers : Register(m)
    \/ \E value \in EnvValues, defaults \in EnvDefaults :
           InitCall(TRUE, value, defaults)
    \/ \E defaults \in DefaultLists : InitCall(FALSE, <<>>, defaults)

SpecSelect == Init /\ [][NextSelect]_vars

\* Application of the active set.
NextApply ==
    \/ \E m \in Multipliers : Register(m)
    \/ \E defaults \in DefaultLists : InitCall(FALSE, <<>>, defaults)
    \/ \E actions \in ActionLists : Apply(actions)

SpecApply == Init /\ [][NextApply]_vars

\* Admission of a test.
NextSkip ==
    \/ \E m \in SkipMultipliers : Register(m)
    \/ \E defaults \in DefaultLists : InitCall(FALSE, <<>>, defaults)
    \/ \E includes \in IncludeLists, excludes \in ExcludeLists :
           Skip(includes, excludes)

SpecSkip == Init /\ [][NextSkip]_vars

\* Execution of an action list.
NextExec ==
    \/ \E a \in ExecLists : Execute(a)
    \/ \E actions \in ExecLists, byRef \in BOOLEAN : ExecuteS(actions, byRef)

SpecExec == Init /\ [][NextExec]_vars

\* The diagnostic report.
NextLog ==
    \/ \E m \in Multipliers : Register(m)
    \/ \E defaults \in DefaultLists : InitCall(FALSE, <<>>, defaults)
    \/ Get
    \/ \E actions \in LogLists : Log(actions)

SpecLog == Init /\ [][NextLog]_vars

\* Every operation, in any order.
Next ==
    \/ \E m \in Multipliers : Register(m)
    \/ \E value \in ExampleEnv, defaults \in EnvDefaults :
           InitCall(TRUE, value, defaults)
    \/ \E defaults \in EnvDefaults : InitCall(FALSE, <<>>, defaults)
    \/ \E actions \in SeqsUpTo({7}, 1) : Apply(actions)
    \/ \E includes \in SeqsUpTo(FilterNames, 1), excludes \in SeqsUpTo(FilterNames, 1) :
           Skip(includes, excludes)
    \/ Get
    \/ \E a \in SeqsUpTo({Writer(1), Plain}, 1) : Execute(a)
    \/ \E actions \in SeqsUpTo({Writer(1), Plain}, 1), byRef \in BOOLEAN :
           ExecuteS(actions, byRef)
    \/ \E actions \in SeqsUpTo({"Fields", "Unmarshalable"}, 1) : Log(actions)

Spec == Init /\ [][Next]_vars

(* ======================= properties of the code ======================= *)

NamesOf(active) == [i \in DOMAIN active |-> Name(active[i])]
RegisteredNames(available) == {Name(available[i]) : i \in DOMAIN available}
Range(f) == {f[i] : i \in DOMAIN f}

\* the index of the multiplier registered last under name n
LastIndex(available, n) ==
    CHOOSE i \in DOMAIN available :
        /\ Name(available[i]) = n
        /\ \A j \in DOMAIN available : Name(available[j]) = n => j <= i

\* names with every unregistered name removed and every other one replaced
\* by the multiplier registered last under it
Resolved(available, names) ==
    LET kept == SelectSeq(names, LAMBDA n : n \in RegisteredNames(available))
    IN  [i \in DOMAIN kept |-> available[LastIndex(available, kept[i])]]

\* The candidate names of an Init call as the specification defines them:
\* the trimmed elements of the variable, or the defaults verbatim.
CandidatesVerbatim(c) ==
    IF c.ok THEN TrimNames(Split(c.value)) ELSE c.defaults

\* The candidate names of an Init call with every name trimmed.
CandidatesTrimmed(c) ==
    TrimNames(IF c.ok THEN Split(c.value) ELSE c.defaults)

\* ActiveIs(names): the active set is names with each registered name
\* replaced by a registered multiplier of that name and each unregistered
\* one removed, in the order of names, repetitions kept.
ActiveIs(names) ==
    /\ NamesOf(activeMultipliers) =
           SelectSeq(names, LAMBDA n : n \in RegisteredNames(availableMultipliers))
    /\ \A i \in DOMAIN activeMultipliers :
           activeMultipliers[i] \in Range(availableMultipliers)
    /\ Len(activeMultipliers) <= Len(names)

\* C1 as stated: after Init the active set is the candidate list (the
\* defaults taken verbatim) resolved name by name.  The code trims the
\* defaults too, so a default with surrounding white space is resolved
\* under its trimmed name.
C1_AsStated == call.op = "Init" => ActiveIs(CandidatesVerbatim(call))

\* C1 (amended): after Init the active set is the candidate list, each name
\* trimmed of surrounding white space (defaults included), with every
\* registered name replaced by a registered multiplier of that name and
\* every unregistered name removed; candidate order, repetitions kept,
\* never longer than the candidate list.
C1_InitResolvesTrimmedCandidates ==
    call.op = "Init" => ActiveIs(CandidatesTrimmed(call))

C1_Witness ==
    /\ call.op = "Init"
    /\ ~call.ok
    /\ call.defaults = <<<<" ", "b">>, <<"a">>>>
    /\ availableMultipliers = <<"A", "B">>
    /\ activeMultipliers = <<"B", "A">>

\* C6 as stated: when the variable is unset or set to the empty string, the
\* active set is the one the (trimmed) defaults resolve to.
C6_AsStated ==
    (call.op = "Init" /\ (~call.ok \/ call.value = <<>>))
        => activeMultipliers =
               Resolved(availableMultipliers, TrimNames(call.defaults))

\* C6 (amended): when the variable is not set, the active set is the one the
\* defaults, each trimmed of surrounding white space, resolve to; when it is
\* set to the empty string the defaults are not used: the only candidate is
\* the empty name, so the active set is empty unless a multiplier is
\* registered under the empty name.
C6_UnsetFallsBackEmptyDoesNot ==
    call.op = "Init" =>
        /\ ~call.ok => activeMultipliers =
               Resolved(availableMultipliers, TrimNames(call.defaults))
        /\ (call.ok /\ call.value = <<>>) =>
               activeMultipliers =
                   IF <<>> \in RegisteredNames(availableMultipliers)
                   THEN <<availableMultipliers[LastIndex(availableMultipliers, <<>>)]>>
                   ELSE <<>>

C6_Witness ==
    /\ call.op = "Init"
    /\ call.ok
    /\ call.value = <<>>
    /\ call.defaults = <<<<"b">>, <<"a">>>>
    /\ availableMultipliers = <<"A", "B">>
    /\ activeMultipliers = <<>>

\* C7: Init overwrites the active set: after an Init call the active set is
\* determined by the registry and that call's candidate names alone (every
\* entry is named by a candidate of that call and there are no more entries
\* than candidates), a repeated Init call leaves it equal, and with "a" then
\* "b" registered the defaults ["b","a"] without the variable give [b, a]
\* and the variable "a, b" gives [a, b], whatever the active set was before.
C7_InitOverwrites ==
    [][call'.op = "Init" =>
        /\ activeMultipliers' =
               Resolved(availableMultipliers', CandidatesTrimmed(call'))
        /\ Len(activeMultipliers') <= Len(CandidatesTrimmed(call'))
        /\ \A i \in DOMAIN activeMultipliers' :
               Name(activeMultipliers'[i]) \in Range(CandidatesTrimmed(call'))
        /\ (call.op = "Init" /\ CandidatesTrimmed(call) = CandidatesTrimmed(call'))
               => activeMultipliers' = activeMultipliers
        /\ (availableMultipliers = <<"A", "B">> /\ ~call'.ok
                /\ call'.defaults = <<<<"b">>, <<"a">>>>)
               => activeMultipliers' = <<"B", "A">>
        /\ (availableMultipliers = <<"A", "B">> /\ call'.ok
                /\ call'.value = <<"a", Comma, " ", "b">>)
               => activeMultipliers' = <<"A", "B">>
    ]_vars

C7_Witness ==
    /\ call.op = "Init"
    /\ call.ok
    /\ call.value = <<"a", Comma, " ", "b">>
    /\ call.defaults = <<<<"b">>, <<"a">>>>
    /\ availableMultipliers = <<"A", "B">>
    /\ activeMultipliers = <<"A", "B">>

Count(seq, x) == Cardinality({i \in DOMAIN seq : seq[i] = x})

\* C8: Register appends its argument to the registry whatever is registered
\* already; and Init resolves every occurrence of a registered name among
\* its candidates to the multiplier registered last under that name, so a
\* multiplier registered before another of its name is never active.
C8_RegisterAppendsLastNameWins ==
    [][/\ call'.op = "Register" =>
            /\ availableMultipliers' =
                   Append(availableMultipliers, call'.multiplier)
            /\ Len(availableMultipliers') = Len(availableMultipliers) + 1
       /\ call'.op = "Init" =>
            /\ \A i \in DOMAIN activeMultipliers' :
                   activeMultipliers'[i] =
                       availableMultipliers[LastIndex(availableMultipliers,
                                                      Name(activeMultipliers'[i]))]
            /\ \A n \in RegisteredNames(availableMultipliers) :
                   Count(NamesOf(activeMultipliers'), n) =
                       Count(CandidatesTrimmed(call'), n)
            /\ \A k \in DOMAIN availableMultipliers :
                   (availableMultipliers[k] #
                        availableMultipliers[LastIndex(availableMultipliers,
                                                       Name(availableMultipliers[k]))])
                       => availableMultipliers[k] \notin Range(activeMultipliers')
    ]_vars

C8_Witness ==
    /\ call.op = "Init"
    /\ call.ok
    /\ call.value = <<"a", Comma, "a">>
    /\ availableMultipliers = <<"A", "A2">>
    /\ activeMultipliers = <<"A2", "A2">>

\* m_n.Apply(... m_2.Apply(m_1.Apply(actions)) ...) for the first n of active
RECURSIVE Composed(_, _, _)
Composed(active, n, actions) ==
    IF n = 0 THEN actions
    ELSE MultiplierApply(active[n], Composed(active, n - 1, actions))

\* C2: Apply folds the active set from left to right: its result is
\* m_n.Apply(...m_1.Apply(actions)...), each active entry is invoked exactly
\* once, in order, on the output of the one before it (the first on the
\* given actions); so the non-commuting A (prepends) and B (appends by
\* length) give different results in the orders [A,B] and [B,A].
C2_ApplyFoldsLeftToRight ==
    call.op = "Apply" =>
        /\ call.result =
               Composed(activeMultipliers, Len(activeMultipliers), call.actions)
        /\ Len(call.invoked) = Len(activeMultipliers)
        /\ \A i \in DOMAIN call.invoked :
               call.invoked[i] =
                   <<activeMultipliers[i],
                     Composed(activeMultipliers, i - 1, call.actions)>>
        /\ activeMultipliers = <<"A", "B">> =>
               /\ call.result = Append(<<0>> \o call.actions, Len(call.actions) + 1)
               /\ call.result # Composed(<<"B", "A">>, 2, call.actions)
        /\ activeMultipliers = <<"B", "A">> =>
               /\ call.result = <<0>> \o Append(call.actions, Len(call.actions))
               /\ call.result # Composed(<<"A", "B">>, 2, call.actions)

C2_Witness ==
    /\ call.op = "Apply"
    /\ activeMultipliers = <<"A", "B">>
    /\ call.actions = <<7>>
    /\ call.result = <<0, 7, 2>>
    /\ call.invoked = <<<<"A", <<7>>>>, <<"B", <<0, 7>>>>>>

\* C3: with an empty active set (Init not called, or no candidate
\* registered) Apply returns the given actions and invokes no Multiplier.
C3_ApplyOverEmptyIsIdentity ==
    (call.op = "Apply" /\ activeMultipliers = <<>>) =>
        /\ call.result = call.actions
        /\ call.invoked = <<>>

C3_Witness ==
    /\ call.op = "Apply"
    /\ activeMultipliers = <<>>
    /\ availableMultipliers = <<"A", "B">>
    /\ call.actions = <<7, 8>>
    /\ call.result = <<7, 8>>

\* C4: Skip signals a skip exactly when the name of an active multiplier is
\* in excludes or a name in includes is the name of no active multiplier,
\* and the message names such a name.  With the active set {a} ("txn" in
\* the specification's example, "b" standing for "ns"): includes [a] does
\* not skip, includes [b] skips, excludes [a] skips, excludes [b] does not.
C4_SkipIffExcludedOrMissing ==
    call.op = "Skip" =>
        LET active == Range(NamesOf(activeMultipliers))
            excluded == Range(call.excludes) \cap active
            missing == Range(call.includes) \ active
        IN  /\ call.signal.skipped <=> (excluded # {} \/ missing # {})
            /\ call.signal.reason = "excluded" <=> excluded # {}
            /\ call.signal.reason = "excluded" => call.signal.name \in excluded
            /\ call.signal.reason = "missing" => call.signal.name \in missing
            /\ (call.includes = <<>> /\ excluded = {}) => ~call.signal.skipped
            /\ active = {<<"a">>} =>
                /\ (call.includes = <<<<"a">>>> /\ call.excludes = <<>>)
                       => ~call.signal.skipped
                /\ call.includes = <<<<"b">>>> => call.signal.skipped
                /\ call.excludes = <<<<"a">>>> => call.signal.skipped
                /\ (call.excludes = <<<<"b">>>> /\ call.includes = <<>>)
                       => ~call.signal.skipped

C4_Witness ==
    /\ call.op = "Skip"
    /\ activeMultipliers = <<"A">>
    /\ call.includes = <<<<"a">>, <<"b">>>>
    /\ call.excludes = <<>>
    /\ call.signal = Skipf("missing", <<"b">>)

Positions(events, kind, i) == {e \in DOMAIN events : events[e] = <<kind, i>>}

\* ExecuteS calls Execute once on every action, in the declared order, and
\* SetState once on every stateful action, immediately before its Execute.
SetStateThenExecuteInOrder(c) ==
    LET ev == c.run.events IN
    /\ \A e \in DOMAIN ev : ev[e][2] \in DOMAIN c.actions
    /\ \A i \in DOMAIN c.actions :
        /\ Cardinality(Positions(ev, "Execute", i)) = 1
        /\ c.actions[i].stateful =>
               /\ Cardinality(Positions(ev, "SetState", i)) = 1
               /\ \A e \in Positions(ev, "SetState", i) :
                      e + 1 \in Positions(ev, "Execute", i)
        /\ ~c.actions[i].stateful => Positions(ev, "SetState", i) = {}
    /\ \A i, j \in DOMAIN c.actions :
           i < j => \A e \in Positions(ev, "Execute", i),
                       f \in Positions(ev, "Execute", j) : e < f

\* A reader observes the value of the last writer before it (the value
\* given to ExecuteS when there is none).
LaterActionsObserveEarlierWrites(c) ==
    \A j \in DOMAIN c.actions :
        c.actions[j].does = "read" =>
            LET writers == {i \in 1..(j - 1) : c.actions[i].does = "write"}
            IN  IF writers = {} THEN c.run.observed[j] = InitialState
                ELSE \E i \in writers :
                         /\ \A k \in writers : k <= i
                         /\ c.run.observed[j] = c.actions[i].v

\* C5 as stated: SetState immediately before each stateful action's
\* Execute, Execute once on every action in order, and a value written into
\* the state by an earlier action is what a later action observes, for
\* every state type.
C5_AsStated ==
    call.op = "ExecuteS" =>
        /\ SetStateThenExecuteInOrder(call)
        /\ LaterActionsObserveEarlierWrites(call)

\* C5 (amended): the order of the calls is as stated for every state type;
\* a later action observes what an earlier action wrote into the state when
\* TState is a reference type (a pointer, as in the README), all actions
\* then holding the one instance; when TState is a value type every
\* SetState receives a copy of the value given to ExecuteS, and a reader
\* observes that value whatever earlier actions wrote.
C5_OrderAlwaysSharingByReference ==
    call.op = "ExecuteS" =>
        /\ SetStateThenExecuteInOrder(call)
        /\ call.byRef => LaterActionsObserveEarlierWrites(call)
        /\ ~call.byRef =>
               \A j \in DOMAIN call.actions :
                   call.actions[j].does = "read"
                       => call.run.observed[j] = InitialState

C5_Witness ==
    /\ call.op = "ExecuteS"
    /\ call.byRef
    /\ call.actions = <<Writer(1), Plain, Reader>>
    /\ call.run.events = <<<<"SetState", 1>>, <<"Execute", 1>>, <<"Execute", 2>>,
                           <<"SetState", 3>>, <<"Execute", 3>>>>
    /\ call.run.observed[3] = 1

\* C9: only Init changes the active set and only Register changes the
\* registry; so Apply invokes, Skip tests and Get lists the multipliers that
\* were active before the call, whatever was registered since the last Init.
C9_OnlyInitChangesActiveSet ==
    [][/\ call'.op # "Init" => activeMultipliers' = activeMultipliers
       /\ call'.op # "Register" => availableMultipliers' = availableMultipliers
       /\ call'.op \in {"Register", "Init", "Apply", "Skip", "Get", "Execute",
                        "ExecuteS", "Log"}
       /\ call'.op = "Apply" =>
              [i \in DOMAIN call'.invoked |-> call'.invoked[i][1]] = activeMultipliers
       /\ call'.op = "Get" => call'.result = Join(NamesOf(activeMultipliers))
       /\ call'.op = "Skip" =>
              (call'.signal.skipped <=>
                  \/ Range(call'.excludes) \cap Range(NamesOf(activeMultipliers)) # {}
                  \/ Range(call'.includes) \ Range(NamesOf(activeMultipliers)) # {})
    ]_vars

C9_Witness ==
    /\ call.op = "Apply"
    /\ availableMultipliers = <<"A", "B">>
    /\ activeMultipliers = <<"A">>
    /\ call.actions = <<7>>
    /\ call.result = <<0, 7>>

\* C10 as stated: whenever an action, or the array of typed actions, cannot
\* be serialized, Log reports it through t.Fatal, logs no report and does
\* not panic.  The code discards the error of serializing an action and
\* then slices the nil result, which panics.
C10_AsStated ==
    (/\ call.op = "Log"
     /\ \E i \in DOMAIN call.actions :
            \/ MarshalIndent(call.actions[i]).err
            \/ ~ValidJSON(JsonString(ActionJson(call.actions[i]))))
        => (call.out.fatal /\ ~call.out.logged /\ ~call.out.panicked)

====
